---- MODULE Spec2Model ----
(***************************************************************************)
(* Model of src/src/lib.rs: the interpolation-template parser              *)
(* parse_internal, Interpolate::parse and the match-arm generator          *)
(* Interpolate::to_tokens.                                                 *)
(*                                                                         *)
(* A Rust String is modelled as a sequence of one-character strings, a     *)
(* BTreeSet<String> as a set of such sequences (its iteration order is     *)
(* computed where the code iterates), an Option<T> as a sequence of length *)
(* zero (None) or one (Some).                                              *)
(***************************************************************************)
EXTENDS Integers, Sequences, FiniteSets

VARIABLES pc, fmt_text, rewritten_text, identifiers, positional_index,
          renormalized, variant, arm

vars == <<pc, fmt_text, rewritten_text, identifiers, positional_index,
          renormalized, variant, arm>>

(***************************************************************************)
(* Bounds of the model.                                                    *)
(***************************************************************************)
\* Largest number of fragments a template is put together from.
MaxFrags == 5
\* Number of positional fields of the tuple variant handed to to_tokens.
MaxFields == 2

\* The pieces templates are put together from: the three characters the
\* parser dispatches on, a name character, two literals within the u8 range
\* and one beyond it.
Fragments ==
    { <<"{">>, <<"}">>, <<":">>, <<"a">>, <<"0">>, <<"1">>,
      <<"2", "5", "6">> }

RECURSIVE Concat(_)
Concat(ss) == IF ss = <<>> THEN <<>> ELSE Head(ss) \o Concat(Tail(ss))

Templates ==
    { Concat(fs) : fs \in UNION { [1..n -> Fragments] : n \in 0..MaxFrags } }

(***************************************************************************)
(* Option<T>.                                                              *)
(***************************************************************************)
None == <<>>
Some(x) == <<x>>

(***************************************************************************)
(* Library functions the parser calls.                                     *)
(***************************************************************************)
Digits == <<"0", "1", "2", "3", "4", "5", "6", "7", "8", "9">>

DigitChars == { Digits[i] : i \in 1..10 }

DigitValue(c) == (CHOOSE i \in 1..10 : Digits[i] = c) - 1

\* format!("{}", n) of a non-negative integer: its decimal digits.
RECURSIVE DisplayNat(_)
DisplayNat(n) ==
    IF n < 10 THEN <<Digits[n + 1]>>
    ELSE DisplayNat(n \div 10) \o <<Digits[(n % 10) + 1]>>

\* format!("{}", n) of an i32.
Display(n) == IF n < 0 THEN <<"-">> \o DisplayNat(-n) ELSE DisplayNat(n)

U8Max == 255

\* The value of a string of decimal digits as parse::<u8> accumulates it,
\* digit by digit with checked arithmetic: once the value leaves the u8 range
\* the parse has failed, which U8Max + 1 stands for.
RECURSIVE DecimalValue(_)
DecimalValue(s) ==
    IF s = <<>> THEN 0
    ELSE LET front == DecimalValue(SubSeq(s, 1, Len(s) - 1))
             value == 10 * front + DigitValue(s[Len(s)])
         IN  IF front > U8Max \/ value > U8Max THEN U8Max + 1 ELSE value

\* str::parse::<u8>().is_ok(): an optional '+', then one or more decimal
\* digits whose value fits in eight bits.
ParsesAsU8(s) ==
    LET digits == IF s # <<>> /\ Head(s) = "+" THEN Tail(s) ELSE s
    IN  /\ digits # <<>>
        /\ \A i \in 1..Len(digits) : digits[i] \in DigitChars
        /\ DecimalValue(digits) <= U8Max

(***************************************************************************)
(* parse_internal.                                                         *)
(***************************************************************************)
\* The locals of parse_internal as it enters its loop.
InitialScan == [text |-> <<>>, identifers |-> {}, positional_index |-> -1]

\* Fault variant of Canonicalize: the counter advances for every placeholder,
\* not only for those without identifier.
CanonicalizeCountsAll(identifier, index) ==
    LET auto  == identifier = <<>>
        index1 == index + 1
        ident1 == IF auto THEN <<"_", "_">> \o Display(index1) ELSE identifier
        ident2 == IF ParsesAsU8(ident1) THEN <<"_", "_">> \o ident1 ELSE ident1
    IN  [identifier |-> ident2, positional_index |-> index1]

\* Fault variant of Canonicalize: an identifier that is given is prefixed
\* without asking whether it parses as an integer.
CanonicalizeAlwaysPrefix(identifier, index) ==
    LET auto  == identifier = <<>>
        index1 == IF auto THEN index + 1 ELSE index
    IN  [identifier |-> <<"_", "_">>
                           \o (IF auto THEN Display(index1) ELSE identifier),
         positional_index |-> index1]

\* Rewriting of a placeholder's identifier once its '}' is read.
Canonicalize(identifier, index) ==
    LET auto  == identifier = <<>>
        index1 == IF auto THEN index + 1 ELSE index
        ident1 == IF auto THEN <<"_", "_">> \o Display(index1) ELSE identifier
        ident2 == IF ParsesAsU8(ident1) THEN <<"_", "_">> \o ident1 ELSE ident1
    IN  [identifier |-> ident2, positional_index |-> index1]

\* traits.as_ref().map(|c| format!(":{c}")).unwrap_or_default()
FormatTraits(traits) ==
    IF traits = None THEN <<>> ELSE <<":">> \o traits[1]

\* Fault variant of ClosePlaceholder: the set receives the identifier as it
\* was read, not as it was rewritten.
ClosePlaceholderInsertsRaw(st, identifier, traits) ==
    LET c == Canonicalize(identifier, st.positional_index)
    IN  [text |-> st.text \o <<"{">> \o c.identifier \o FormatTraits(traits)
                     \o <<"}">>,
         identifers |-> st.identifers \cup {identifier},
         positional_index |-> c.positional_index]

\* The branch taken on the closing '}' of a placeholder.
ClosePlaceholder(st, identifier, traits) ==
    LET c == Canonicalize(identifier, st.positional_index)
    IN  [text |-> st.text \o <<"{">> \o c.identifier \o FormatTraits(traits)
                     \o <<"}">>,
         identifers |-> st.identifers \cup {c.identifier},
         positional_index |-> c.positional_index]

\* The loop that follows a ':': it collects the characters up to, and not
\* including, the next '}' (or up to the end of the input).
RECURSIVE ReadTraits(_, _, _)
ReadTraits(chars, j, traits) ==
    IF j > Len(chars) \/ chars[j] = "}" THEN [traits |-> traits, next |-> j]
    ELSE ReadTraits(chars, j + 1,
                    Some((IF traits = None THEN <<>> ELSE traits[1])
                         \o <<chars[j]>>))

\* Fault variant of ScanPlaceholder: the end of the input closes the
\* placeholder as a '}' would.
RECURSIVE ScanPlaceholderClosesAtEnd(_, _, _, _)
ScanPlaceholderClosesAtEnd(chars, j, identifier, traits) ==
    IF j > Len(chars)
    THEN [closed |-> TRUE, next |-> j, identifier |-> identifier,
          traits |-> traits]
    ELSE IF chars[j] = ":"
    THEN LET r == ReadTraits(chars, j + 1, traits)
         IN  ScanPlaceholderClosesAtEnd(chars, r.next, identifier, r.traits)
    ELSE IF chars[j] = "}"
    THEN [closed |-> TRUE, next |-> j + 1, identifier |-> identifier,
          traits |-> traits]
    ELSE ScanPlaceholderClosesAtEnd(chars, j + 1, identifier \o <<chars[j]>>,
                                    traits)

\* The loop over the characters of one placeholder, entered after its '{'.
\* closed is FALSE when the input ends before a '}' is read.
RECURSIVE ScanPlaceholder(_, _, _, _)
ScanPlaceholder(chars, j, identifier, traits) ==
    IF j > Len(chars)
    THEN [closed |-> FALSE, next |-> j, identifier |-> identifier,
          traits |-> traits]
    ELSE IF chars[j] = ":"
    THEN LET r == ReadTraits(chars, j + 1, traits)
         IN  ScanPlaceholder(chars, r.next, identifier, r.traits)
    ELSE IF chars[j] = "}"
    THEN [closed |-> TRUE, next |-> j + 1, identifier |-> identifier,
          traits |-> traits]
    ELSE ScanPlaceholder(chars, j + 1, identifier \o <<chars[j]>>, traits)

\* Fault variant of Escape: one '{' is pushed for the two that were read.
EscapeSingle(st, i) ==
    [st |-> [st EXCEPT !.text = @ \o <<"{">>], next |-> i + 2]

\* Fault variant of Escape: the second '{' is left in the input.
EscapeNoAdvance(st, i) ==
    [st |-> [st EXCEPT !.text = @ \o <<"{", "{">>], next |-> i + 1]

\* The escape branch: "{{" is pushed and the second '{' is consumed.
Escape(st, i) ==
    [st |-> [st EXCEPT !.text = @ \o <<"{", "{">>], next |-> i + 2]

\* The loop over the characters of the template.
RECURSIVE ScanTemplate(_, _, _)
ScanTemplate(chars, i, st) ==
    IF i > Len(chars) THEN st
    ELSE IF chars[i] # "{"
    THEN ScanTemplate(chars, i + 1, [st EXCEPT !.text = @ \o <<chars[i]>>])
    ELSE IF i + 1 <= Len(chars) /\ chars[i + 1] = "{"
    THEN LET e == Escape(st, i) IN ScanTemplate(chars, e.next, e.st)
    ELSE LET p == ScanPlaceholder(chars, i + 1, <<>>, None)
         IN  IF p.closed
             THEN ScanTemplate(chars, p.next,
                               ClosePlaceholder(st, p.identifier, p.traits))
             ELSE ScanTemplate(chars, p.next, st)

parse_internal(text) == ScanTemplate(text, 1, InitialScan)

(***************************************************************************)
(* Interpolate::to_tokens.                                                 *)
(***************************************************************************)
\* The byte of a character: Strings are ordered by their bytes.
Code(c) ==
    CASE c = "+" -> 43
      [] c = "-" -> 45
      [] c \in DigitChars -> 48 + DigitValue(c)
      [] c = ":" -> 58
      [] c = "_" -> 95
      [] c = "a" -> 97
      [] c = "{" -> 123
      [] c = "}" -> 125

\* Ord of String: lexicographic on the bytes, a proper prefix first.
StrLess(a, b) ==
    \E k \in 1..(Len(b)) :
        /\ k <= Len(a) + 1
        /\ \A m \in 1..(k - 1) : a[m] = b[m]
        /\ \/ k = Len(a) + 1
           \/ Code(a[k]) < Code(b[k])

\* BTreeSet::iter: the elements in ascending order.
RECURSIVE Iter(_)
Iter(set) ==
    IF set = {} THEN <<>>
    ELSE LET least == CHOOSE x \in set :
                          \A y \in set : x = y \/ StrLess(x, y)
         IN  <<least>> \o Iter(set \ {least})

\* Ident::new accepts a string that is an identifier and panics otherwise.
IsIdent(s) ==
    /\ s # <<>>
    /\ s[1] \in {"a", "_"}
    /\ \A i \in 1..Len(s) : s[i] \in {"a", "_"} \cup DigitChars

\* The assignment for a field if the format string uses it.
build_ident_assignment(ident, used_fields) ==
    IF ident \notin used_fields THEN None
    ELSE Some([name |-> <<"_", "_">> \o ident,
               value |-> <<"_", "_">> \o ident])

\* fields.iter().flat_map(|field| field.ident.as_ref().and_then(...))
RECURSIVE Assignments(_, _)
Assignments(fields, used_fields) ==
    IF fields = <<>> THEN <<>>
    ELSE (IF Head(fields).ident = None THEN None
          ELSE build_ident_assignment(Head(fields).ident[1], used_fields))
         \o Assignments(Tail(fields), used_fields)

\* fields.iter().flat_map(|field| &field.ident)
RECURSIVE FieldIdents(_)
FieldIdents(fields) ==
    IF fields = <<>> THEN <<>>
    ELSE Head(fields).ident \o FieldIdents(Tail(fields))

\* The variants to_tokens is applied to: a unit variant, a tuple variant
\* (its fields carry no ident) and a struct variant.
Variants ==
    { [kind |-> "Unit", fields |-> <<>>],
      [kind |-> "Unnamed", fields |-> [i \in 1..MaxFields |-> [ident |-> None]]],
      [kind |-> "Named", fields |-> << [ident |-> Some(<<"a">>)] >>] }

\* The match arm to_tokens generates: the identifiers of its pattern in
\* order (for a tuple variant the i-th one binds the i-th field, the rest of
\* the fields fall under ".."), the template handed to write! and the named
\* arguments that follow it.
to_tokens(v, text, idents) ==
    CASE v.kind = "Unit" ->
           [kind |-> "Unit", pattern |-> <<>>, text |-> text,
            assignments |-> <<>>]
      [] v.kind = "Unnamed" ->
           IF \A id \in idents : IsIdent(id)
           THEN [kind |-> "Unnamed", pattern |-> Iter(idents), text |-> text,
                 assignments |-> Assignments(v.fields, idents)]
           ELSE [kind |-> "panic", pattern |-> <<>>, text |-> <<>>,
                 assignments |-> <<>>]
      [] v.kind = "Named" ->
           [kind |-> "Named", pattern |-> FieldIdents(v.fields), text |-> text,
            assignments |-> <<>>]

(***************************************************************************)
(* State machine: a template is parsed into an Interpolate, whose match    *)
(* arm is then generated, or whose rewritten text is parsed again.         *)
(***************************************************************************)
NoArm == [kind |-> "none", pattern |-> <<>>, text |-> <<>>, assignments |-> <<>>]

Init ==
    /\ pc = "start"
    /\ fmt_text \in Templates
    /\ rewritten_text = <<>>
    /\ identifiers = {}
    /\ positional_index = -1
    /\ renormalized = None
    /\ variant = None
    /\ arm = NoArm

\* Interpolate::parse
Parse ==
    /\ pc = "start"
    /\ LET r == parse_internal(fmt_text)
       IN  /\ rewritten_text' = r.text
           /\ identifiers' = r.identifers
           /\ positional_index' = r.positional_index
    /\ pc' = "parsed"
    /\ UNCHANGED <<fmt_text, renormalized, variant, arm>>

\* parse_internal applied to the text it has rewritten.
Renormalize ==
    /\ pc = "parsed"
    /\ renormalized' = Some(parse_internal(rewritten_text))
    /\ pc' = "renormalized"
    /\ UNCHANGED <<fmt_text, rewritten_text, identifiers, positional_index,
                   variant, arm>>

\* <Interpolate as ToTokens>::to_tokens
ToTokens ==
    /\ pc = "parsed"
    /\ \E v \in Variants :
          /\ variant' = Some(v)
          /\ arm' = to_tokens(v, rewritten_text, identifiers)
    /\ pc' = "generated"
    /\ UNCHANGED <<fmt_text, rewritten_text, identifiers, positional_index,
                   renormalized>>

Next == Parse \/ Renormalize \/ ToTokens

Spec == Init /\ [][Next]_vars

(***************************************************************************)
(* The placeholders of a text, read off the text alone: what the claims    *)
(* below call a placeholder, its raw identifier and its specifier.         *)
(***************************************************************************)
\* The first index from `from` on that holds c, or 0.
FirstAt(s, from, c) ==
    IF \E i \in from..Len(s) : s[i] = c
    THEN CHOOSE i \in from..Len(s) :
             s[i] = c /\ \A k \in from..(i - 1) : s[k] # c
    ELSE 0

\* The terminated placeholders of s from index i on, left to right, each as
\* the positions of its '{' and of its '}', and the position of the '{' of
\* an unterminated one at the end (0 if there is none).
RECURSIVE Tokens(_, _)
Tokens(s, i) ==
    IF i > Len(s) THEN [placeholders |-> <<>>, dangling |-> 0]
    ELSE IF s[i] # "{" THEN Tokens(s, i + 1)
    ELSE IF i < Len(s) /\ s[i + 1] = "{" THEN Tokens(s, i + 2)
    ELSE LET close == FirstAt(s, i + 1, "}")
         IN  IF close = 0 THEN [placeholders |-> <<>>, dangling |-> i]
             ELSE LET rest == Tokens(s, close + 1)
                  IN  [placeholders |->
                           <<[open |-> i, close |-> close]>> \o rest.placeholders,
                       dangling |-> rest.dangling]

Placeholders(s) == Tokens(s, 1).placeholders

Dangling(s) == Tokens(s, 1).dangling

\* The position of the first ':' of placeholder p of s, or 0.
ColonOf(s, p) ==
    LET c == FirstAt(s, p.open + 1, ":")
    IN  IF c # 0 /\ c < p.close THEN c ELSE 0

\* The identifier of placeholder p of s: what stands before its first ':',
\* or before its '}' if it has no ':'.
IdentOf(s, p) ==
    SubSeq(s, p.open + 1,
           (IF ColonOf(s, p) # 0 THEN ColonOf(s, p) ELSE p.close) - 1)

\* What stands between the first ':' of placeholder p of s and its '}'.
SpecifierOf(s, p) == SubSeq(s, ColonOf(s, p) + 1, p.close - 1)

\* The whole placeholder, braces included.
TokenOf(s, p) == SubSeq(s, p.open, p.close)

IsIntegerLiteral(id) ==
    id # <<>> /\ \A i \in 1..Len(id) : id[i] \in DigitChars

\* The number of placeholders with an empty identifier among the first n.
AutoCount(s, n) ==
    Cardinality({ j \in 1..n : IdentOf(s, Placeholders(s)[j]) = <<>> })

\* Once Parse has run, rewritten_text, identifiers and positional_index hold
\* what parse_internal(fmt_text) returned and the counter it ended with.
Parsed == pc # "start"

In == Placeholders(fmt_text)

Out == Placeholders(rewritten_text)

(***************************************************************************)
(* Claims.                                                                 *)
(***************************************************************************)
\* C1: the positional counter starts at -1 and advances exactly once per
\* terminated placeholder whose raw identifier is empty, with or without a
\* specifier: the k-th such placeholder, left to right, is emitted with the
\* identifier "__" followed by the decimal text of k-1.
C1_AutoIndex ==
    Parsed =>
        /\ Len(Out) = Len(In)
        /\ \A i \in 1..Len(In) :
              IdentOf(fmt_text, In[i]) = <<>> =>
                  IdentOf(rewritten_text, Out[i])
                      = <<"_", "_">> \o Display(AutoCount(fmt_text, i) - 1)
        /\ positional_index = AutoCount(fmt_text, Len(In)) - 1

\* A template parsed whose second placeholder without identifier carries a
\* ':' and was emitted as the second auto-indexed one.
C1_Witness ==
    /\ Parsed
    /\ Len(Out) = Len(In)
    /\ \E i \in 1..Len(In) :
          /\ IdentOf(fmt_text, In[i]) = <<>>
          /\ ColonOf(fmt_text, In[i]) # 0
          /\ AutoCount(fmt_text, i) = 2
          /\ IdentOf(rewritten_text, Out[i]) = <<"_", "_", "1">>
    /\ positional_index = 1

\* C2: a placeholder with a non-empty raw identifier leaves the positional
\* counter alone; its identifier is emitted as "__" followed by the raw
\* identifier if that is the text of a non-negative integer literal, and
\* unchanged otherwise.
C2_ExplicitIdentifier ==
    Parsed =>
        /\ Len(Out) = Len(In)
        /\ \A i \in 1..Len(In) :
              LET raw == IdentOf(fmt_text, In[i])
              IN  raw # <<>> =>
                      IdentOf(rewritten_text, Out[i])
                          = IF IsIntegerLiteral(raw) THEN <<"_", "_">> \o raw
                            ELSE raw
        /\ positional_index = AutoCount(fmt_text, Len(In)) - 1

\* C3: the field set is exactly the set of the identifiers of the
\* placeholders emitted into the rewritten text; every terminated
\* placeholder of the template emits one of its own.
C3_FieldSet ==
    Parsed =>
        /\ Len(Out) = Len(In)
        /\ identifiers
               = { IdentOf(rewritten_text, Out[i]) : i \in 1..Len(Out) }

\* Two placeholders were emitted under one identifier, which the set holds
\* once.
C3_Witness ==
    /\ Parsed
    /\ Len(In) = 2
    /\ Len(Out) = 2
    /\ IdentOf(rewritten_text, Out[1]) = IdentOf(rewritten_text, Out[2])
    /\ identifiers = { IdentOf(rewritten_text, Out[1]) }

\* C4: a terminated placeholder that contains a ':' is emitted as '{', its
\* canonical identifier, ':', the characters that stood between its first
\* ':' and its '}' (also when there are none), and '}'.
C4_SpecifierReattached ==
    Parsed =>
        /\ Len(Out) = Len(In)
        /\ \A i \in 1..Len(In) :
              ColonOf(fmt_text, In[i]) # 0 =>
                  TokenOf(rewritten_text, Out[i])
                      = <<"{">> \o IdentOf(rewritten_text, Out[i]) \o <<":">>
                          \o SpecifierOf(fmt_text, In[i]) \o <<"}">>

NoBraces(s) == \A i \in 1..Len(s) : s[i] \notin {"{", "}"}

RECURSIVE EscapesOnly(_)
EscapesOnly(s) ==
    \/ s = <<>>
    \/ /\ Len(s) >= 2
       /\ s[1] \in {"{", "}"}
       /\ s[2] = s[1]
       /\ EscapesOnly(SubSeq(s, 3, Len(s)))

\* C5: a template without any brace, or made of "{{" and "}}" only, is
\* returned unchanged with an empty field set, and the positional counter
\* is where it started.
C5_NoPlaceholder ==
    (Parsed /\ (NoBraces(fmt_text) \/ EscapesOnly(fmt_text))) =>
        /\ rewritten_text = fmt_text
        /\ identifiers = {}
        /\ positional_index = -1

\* A template of escapes of both kinds was parsed.
C5_Witness ==
    /\ Parsed
    /\ EscapesOnly(fmt_text)
    /\ \E i \in 1..Len(fmt_text) : fmt_text[i] = "{"
    /\ \E i \in 1..Len(fmt_text) : fmt_text[i] = "}"
    /\ rewritten_text = fmt_text

HasOverflowLiteral(s) ==
    \E i \in 1..Len(Placeholders(s)) :
        LET raw == IdentOf(s, Placeholders(s)[i])
        IN  IsIntegerLiteral(raw) /\ DecimalValue(raw) > U8Max

\* C6: a template with a placeholder whose raw identifier is an integer
\* literal beyond the 8-bit range is rejected: no rewritten text and no
\* field set is ever produced for it.
C6_OverflowRejected == HasOverflowLiteral(fmt_text) => ~Parsed

\* C7: the match arm generated for a tuple variant binds every identifier
\* "__<n>" of the field set to the n-th field of the variant (fields counted
\* from 0, the k-th identifier of the pattern binding field k-1).
C7_PositionalBinding ==
    (pc = "generated" /\ arm.kind = "Unnamed") =>
        \A n \in 0..U8Max :
            (<<"_", "_">> \o Display(n)) \in identifiers =>
                /\ n + 1 <= Len(arm.pattern)
                /\ arm.pattern[n + 1] = <<"_", "_">> \o Display(n)

AllPositional(s) ==
    \A i \in 1..Len(Placeholders(s)) :
        LET raw == IdentOf(s, Placeholders(s)[i])
        IN  raw = <<>> \/ IsIntegerLiteral(raw)

\* C8: for a template whose placeholders are all positional, parsing the
\* rewritten text again returns the same text and the same field set, and
\* leaves the positional counter where it started.
C8_FixedPoint ==
    (pc = "renormalized" /\ AllPositional(fmt_text)) =>
        /\ renormalized[1].text = rewritten_text
        /\ renormalized[1].identifers = identifiers
        /\ renormalized[1].positional_index = -1

\* The rewritten text of a template with an auto-indexed and an explicit
\* positional placeholder was parsed again.
C8_Witness ==
    /\ pc = "renormalized"
    /\ AllPositional(fmt_text)
    /\ Len(In) = 2
    /\ AutoCount(fmt_text, 2) = 1
    /\ renormalized[1].text = rewritten_text
    /\ Len(rewritten_text) > Len(fmt_text)

\* The number of '{' that stand immediately before position i of s.
BraceRunBefore(s, i) ==
    LET starts == { k \in 1..i : \A m \in k..(i - 1) : s[m] = "{" }
    IN  i - (CHOOSE k \in starts : \A m \in starts : k <= m)

\* The positions of the '{' that are not immediately followed by a '{' and
\* are not the second character of a "{{" (an even number of '{' stands
\* immediately before them).
SingleBraces(s) ==
    { i \in 1..Len(s) :
          /\ s[i] = "{"
          /\ (i = Len(s) \/ s[i + 1] # "{")
          /\ BraceRunBefore(s, i) % 2 = 0 }

\* C9 as stated: when every placeholder is terminated, the number of
\* placeholders emitted is the number of '{' of the template that are not
\* immediately followed by another '{', also when a '{' stands between an
\* opening '{' and its '}'.
C9_EverySingleBraceOpens ==
    (/\ Parsed
     /\ Dangling(fmt_text) = 0
     /\ \A i \in SingleBraces(fmt_text) : FirstAt(fmt_text, i + 1, "}") # 0) =>
        Len(Out) = Cardinality(SingleBraces(fmt_text))

\* The text of s that follows its i-th placeholder (the start of s for
\* i = 0) up to the next placeholder, or up to the end of s.
Gap(s, i) ==
    LET ps == Placeholders(s)
    IN  SubSeq(s, IF i = 0 THEN 1 ELSE ps[i].close + 1,
                  IF i = Len(ps) THEN Len(s) ELSE ps[i + 1].open - 1)

\* C9 as amended: when every placeholder is terminated, each '{' that the
\* scan meets outside a placeholder, that is not the second character of an
\* escape and that is not immediately followed by a '{' begins exactly one
\* placeholder, consumed up to and including the first following '}': as
\* many placeholders are emitted as there are such '{', and the text between
\* them is passed through; a '{' inside a placeholder begins none.
C9_ScannedBraceOpens ==
    (Parsed /\ Dangling(fmt_text) = 0) =>
        /\ Len(Out) = Len(In)
        /\ \A i \in 0..Len(In) : Gap(rewritten_text, i) = Gap(fmt_text, i)

\* A template was parsed in which a '{' stands inside a terminated
\* placeholder, after text and before text.
C9_Witness ==
    /\ Parsed
    /\ Dangling(fmt_text) = 0
    /\ Len(In) = 1
    /\ Len(Out) = 1
    /\ \E k \in (In[1].open + 1)..(In[1].close - 1) : fmt_text[k] = "{"
    /\ Cardinality(SingleBraces(fmt_text)) = 2

\* The '{' at position i of s opens a placeholder the input ends in: no '}'
\* follows it, no '{' follows it immediately, and it is not the second
\* character of an escape.
OpensAtEnd(s, i) ==
    /\ s[i] = "{"
    /\ (i = Len(s) \/ s[i + 1] # "{")
    /\ FirstAt(s, i + 1, "}") = 0
    /\ BraceRunBefore(s, i) % 2 = 0

\* C10: when the input ends inside a placeholder, the result is the one of
\* the text that stands before the opening '{': rewritten text, field set
\* and positional counter are those built from what precedes it.
C10_Truncates ==
    Parsed =>
        \A i \in 1..Len(fmt_text) :
            OpensAtEnd(fmt_text, i) =>
                LET r == parse_internal(SubSeq(fmt_text, 1, i - 1))
                IN  /\ rewritten_text = r.text
                    /\ identifiers = r.identifers
                    /\ positional_index = r.positional_index

\* A template was parsed that ends inside a placeholder with an identifier,
\* after a placeholder that was emitted.
C10_Witness ==
    /\ Parsed
    /\ \E i \in 2..(Len(fmt_text) - 1) :
          /\ OpensAtEnd(fmt_text, i)
          /\ Dangling(fmt_text) = i
    /\ Len(In) = 1
    /\ identifiers # {}
    /\ positional_index = 0

====
